---- MODULE Spec2Model ----
(***************************************************************************)
(* Model of the S3 layer of aws-rag-bot-v2:                                *)
(*   app/services/s3_service.py            S3Service.bucket_exists         *)
(*   app/services/setup/s3_setup_service.py S3SetupService.setup_bucket    *)
(*   app/services/s3_service.py            list_files, upload_local_file,  *)
(*                                         get_file_content                *)
(*   main.py                               lifespan, the handler of        *)
(*                                         S3ServiceError                  *)
(*   app/routes/s3.py                      the four /s3 routes             *)
(*   shared/tools.py                       the three S3 tools              *)
(*   app/routes/document.py                POST /document/chunks           *)
(*   app/services/document_service.py      DocumentService.chunk_text      *)
(* The storage provider is the environment: it keeps one bucket and        *)
(* answers each request either from the bucket's state or with an error.   *)
(***************************************************************************)
EXTENDS Integers, Sequences, FiniteSets, TLC

VARIABLES
    bucket,      \* provider side: "Absent" or "Exists"
    bucket0,     \* the bucket's state when the behaviour started
    envBucket,   \* os.getenv("S3_BUCKET_NAME"): None or a string
    pc,          \* per instance: "idle", "probing", "creating", "done"
    op,          \* per instance: the operation in progress or just ended
    arg,         \* per instance: bucket_name handed to bucket_exists
    probe,       \* per instance: the head_bucket outcome of this operation
    creation,    \* per instance: the create_bucket outcome of this operation
    requests,    \* per instance: requests this operation sent, in order
    checked,     \* per instance: what bucket_exists returned or raised
    outcome,     \* per instance: what the operation returned or raised
    prev,        \* per instance: op and outcome of the operation before
    ncalls,      \* per instance: operations started so far
    phase,       \* per instance: where the application's lifespan stands
    session,     \* per instance: app.state.http_session
    served,      \* per instance: whether the application served a request
    tpc,         \* per task: "idle", "inflight", "reading", "done"
    call,        \* per task: the operation called and its arguments
    sent,        \* per task: requests the operation sent, in order
    got,         \* per task: responses the operation received, in order
    result,      \* per task: what the operation returned or raised
    handle,      \* per task: the transport handle it holds (0: none)
    opened,      \* per task: every handle the operation opened
    handles,     \* transport handles open in the process
    nhandles,    \* transport handles created so far
    environ,     \* os.environ: AWS_REGION and AWS_DEFAULT_REGION
    region_name, \* S3Config.region_name, which _client() hands the client
    stored,      \* provider side: objects the bucket holds under the prefix
    entry,       \* per task: the route or tool that was entered
    response     \* per task: what the route or tool answered

lifeVars == <<phase, session, served>>

taskVars == <<tpc, call, sent, got, result, handle, opened, handles,
              nhandles>>

extVars == <<environ, region_name, stored, entry, response>>

instVars == <<bucket0, envBucket, pc, op, arg, probe, creation, requests,
              checked, outcome, prev, ncalls>>

setupVars == <<bucket, bucket0, envBucket, pc, op, arg, probe, creation,
               requests, checked, outcome, prev, ncalls>>

vars == <<bucket, bucket0, envBucket, pc, op, arg, probe, creation,
          requests, checked, outcome, prev, ncalls, phase, session, served,
          tpc, call, sent, got, result, handle, opened, handles, nhandles,
          environ, region_name, stored, entry, response>>

----------------------------------------------------------------------------
(* Bounds of the model.                                                    *)

MaxNameLen == 2
NumInstances == 2
MaxCalls == 2
NumTasks == 2
MaxEntries == 2
MaxChunkSize == 2

Instances == 1..NumInstances

Tasks == 1..NumTasks

----------------------------------------------------------------------------
(* Python values.  None is the empty tuple, a present value x is <<x>>;    *)
(* a str is a tuple of characters.                                         *)

None == <<>>
Some(x) == <<x>>
IsNone(v) == v = <<>>
Val(v) == v[1]

Chars == {" ", "b"}

Names == UNION {[1..n -> Chars] : n \in 0..MaxNameLen}

IsSpace(c) == c = " "

RECURSIVE LStrip(_)
LStrip(s) ==
    IF Len(s) > 0 /\ IsSpace(Head(s)) THEN LStrip(Tail(s)) ELSE s

RECURSIVE RStrip(_)
RStrip(s) ==
    IF Len(s) > 0 /\ IsSpace(s[Len(s)])
    THEN RStrip(SubSeq(s, 1, Len(s) - 1))
    ELSE s

\* str.strip()
Strip(s) == RStrip(LStrip(s))

\* truthiness of a str
Truthy(s) == Len(s) > 0

\* truthiness of an Optional[str]
TruthyOpt(v) == ~IsNone(v) /\ Truthy(Val(v))

----------------------------------------------------------------------------
(* Provider responses.                                                     *)

NOT_FOUND == 404
FORBIDDEN == 403

\* the members of http.HTTPStatus
HTTPStatusValues ==
    (100..103) \cup (200..208) \cup {226} \cup (300..305) \cup {307, 308}
    \cup (400..418) \cup (421..426) \cup {428, 429, 431, 451}
    \cup (500..508) \cup {510, 511}

\* error codes a ClientError can carry ("Error".get("Code")); None when absent
Codes == {None, Some("NoSuchBucket"), Some("NotFound"), Some("AccessDenied"),
          Some("InternalError"), Some("BucketAlreadyOwnedByYou"),
          Some("BucketAlreadyExists")}

\* ResponseMetadata.HTTPStatusCode; None when the metadata carries none
Statuses == {None, Some(400), Some(403), Some(404), Some(409), Some(500),
             Some(599)}

NoResponse == [kind |-> "none", code |-> None, status |-> None]
Ok == [kind |-> "ok", code |-> None, status |-> None]
\* botocore.exceptions.ClientError
ClientError(code, status) ==
    [kind |-> "client_error", code |-> code, status |-> status]
\* any other exception raised by the awaited call (connection, timeout, ...)
OtherError == [kind |-> "exception", code |-> None, status |-> None]
\* self._client() or entering the client context raised: nothing was sent
NoClient == [kind |-> "no_client", code |-> None, status |-> None]

ClientErrors == {ClientError(c, s) : c \in Codes, s \in Statuses}

----------------------------------------------------------------------------
(* What an operation hands back to its caller.                             *)

NoOutcome ==
    [kind |-> "none", flag |-> FALSE, name |-> <<>>, exc |-> "", msg |-> ""]
ReturnBool(b) ==
    [kind |-> "return", flag |-> b, name |-> <<>>, exc |-> "", msg |-> ""]
ReturnName(n) ==
    [kind |-> "return", flag |-> FALSE, name |-> n, exc |-> "", msg |-> ""]
Raise(e, m) ==
    [kind |-> "raise", flag |-> FALSE, name |-> <<>>, exc |-> e, msg |-> m]

AccessDeniedError == Raise("S3ServiceError", "Access denied checking S3 bucket")
CheckFailedError ==
    Raise("S3ServiceError", "Failed to check if S3 bucket exists")
BlankNameError == Raise("ValueError", "bucket_name must be provided")
InvalidStatusError == Raise("ValueError", "not a valid HTTPStatus")
MissingEnvError ==
    Raise("S3SetupServiceError",
          "Missing required environment variable: S3_BUCKET_NAME")
CreateFailedError ==
    Raise("S3SetupServiceError", "Failed to create S3 bucket")

----------------------------------------------------------------------------
(* S3Service.bucket_exists                                                 *)

\* `not bucket_name or not bucket_name.strip()`
IsBlank(name) == ~Truthy(name) \/ ~Truthy(Strip(name))

NoSuchBucketCodes == {Some("NoSuchBucket"), Some("NotFound")}
AccessDeniedCodes == {Some("AccessDenied")}

\* mutant: the forbidden test placed before the not-found test
ClassifyClientError_ForbiddenFirst(code, status) ==
    IF ~IsNone(status) /\ Val(status) \notin HTTPStatusValues
    THEN InvalidStatusError
    ELSE IF status = Some(FORBIDDEN) \/ code \in AccessDeniedCodes
    THEN AccessDeniedError
    ELSE IF status = Some(NOT_FOUND) \/ code \in NoSuchBucketCodes
    THEN ReturnBool(FALSE)
    ELSE CheckFailedError

\* mutant: a forbidden answer read as "the bucket exists"
ClassifyClientError_ForbiddenExists(code, status) ==
    IF ~IsNone(status) /\ Val(status) \notin HTTPStatusValues
    THEN InvalidStatusError
    ELSE IF status = Some(NOT_FOUND) \/ code \in NoSuchBucketCodes
    THEN ReturnBool(FALSE)
    ELSE IF status = Some(FORBIDDEN) \/ code \in AccessDeniedCodes
    THEN ReturnBool(TRUE)
    ELSE CheckFailedError

\* the except ClientError branch: HTTPStatus(status) is evaluated first and
\* raises ValueError, inside the handler, for an int that is no member
ClassifyClientError(code, status) ==
    IF ~IsNone(status) /\ Val(status) \notin HTTPStatusValues
    THEN InvalidStatusError
    ELSE IF status = Some(NOT_FOUND) \/ code \in NoSuchBucketCodes
    THEN ReturnBool(FALSE)
    ELSE IF status = Some(FORBIDDEN) \/ code \in AccessDeniedCodes
    THEN AccessDeniedError
    ELSE CheckFailedError

\* mutant: the (empty) head_bucket response taken for a failure
ClassifyProbe_EmptyResponseFails(r) ==
    IF r.kind = "client_error" THEN ClassifyClientError(r.code, r.status)
    ELSE CheckFailedError

\* the try block and its handlers, given how the probe ended
ClassifyProbe(r) ==
    IF r.kind = "ok" THEN ReturnBool(TRUE)
    ELSE IF r.kind = "client_error" THEN ClassifyClientError(r.code, r.status)
    ELSE CheckFailedError

HeadBucketRequest(name) ==
    [op |-> "head_bucket", Bucket |-> name, Location |-> None]

----------------------------------------------------------------------------
(* S3SetupService.setup_bucket and _create_bucket                          *)

RaceCodes == {Some("BucketAlreadyOwnedByYou"), Some("BucketAlreadyExists")}

\* regions a deployment names
Regions == {None, Some("us-east-1"), Some("eu-west-1")}

\* os.getenv of a region variable: unset, empty, or a region
RegionValues == Regions \cup {Some("")}

Environs == [AWS_REGION : RegionValues, AWS_DEFAULT_REGION : RegionValues]

\* truth value of an Optional[str]
TruthyStr(o) == o # None /\ o # Some("")

\* Python's `a or b` on two Optional[str]
OrElse(a, b) == IF TruthyStr(a) THEN a ELSE b

\* S3Config.from_env: region_name
ConfigRegion(env) == OrElse(env.AWS_REGION, env.AWS_DEFAULT_REGION)

\* mutant: _create_bucket prefers AWS_DEFAULT_REGION
CreateRegion_DefaultFirst(env) ==
    OrElse(env.AWS_DEFAULT_REGION, env.AWS_REGION)

\* _create_bucket: region
CreateRegion(env) == OrElse(env.AWS_REGION, env.AWS_DEFAULT_REGION)

\* mutant: the wrong bucket call is sent
CreateBucketRequest_Delete(name, region) ==
    [op |-> "delete_bucket", Bucket |-> name, Location |-> None]

CreateBucketRequest(name, region) ==
    [op |-> "create_bucket", Bucket |-> name,
     Location |-> IF TruthyStr(region) /\ region # Some("us-east-1")
                  THEN region ELSE None]

\* mutant: only BucketAlreadyOwnedByYou is taken for a race
CreateSucceeds_OwnedOnly(r) ==
    IF r.kind = "ok" THEN TRUE
    ELSE IF r.kind = "client_error"
    THEN r.code = Some("BucketAlreadyOwnedByYou")
    ELSE FALSE

\* mutant: no race code is tolerated
CreateSucceeds_NoRace(r) == r.kind = "ok"

\* mutant: every ClientError is swallowed
CreateSucceeds_AnyClientError(r) == r.kind \in {"ok", "client_error"}

\* _create_bucket: TRUE when it returns, FALSE when it raises
CreateSucceeds(r) ==
    IF r.kind = "ok" THEN TRUE
    ELSE IF r.kind = "client_error" THEN r.code \in RaceCodes
    ELSE FALSE

\* mutant: a failed probe is taken for "absent"
NeedsCreate_UnlessTrue(res) == ~(res.kind = "return" /\ res.flag)

\* setup_bucket after bucket_exists handed back `res`: does it go on to create?
NeedsCreate(res) == res.kind = "return" /\ ~res.flag

----------------------------------------------------------------------------
(* S3Service.list_files, upload_local_file and get_file_content            *)

\* S3Config.bucket_name: from_env() accepts only a non-empty name
ConfigBucketName == <<"b">>

DEFAULT_MAX_KEYS == 1000

MaxKeysValues == {1, DEFAULT_MAX_KEYS}

\* prefix handed to list_files
Prefixes == {None, Some(<<>>), Some(<<"b">>)}

\* object keys handed to upload_local_file and get_file_content
Keys == {<<>>, <<"b">>}

\* bytes objects
Blobs == {<<>>, <<"h">>}

ListFailedError == Raise("S3ServiceError", "Failed to list files from S3")
UploadFailedError ==
    Raise("S3ServiceError", "Failed to upload local file to S3")
FetchFailedError ==
    Raise("S3ServiceError", "Failed to fetch file content from S3")
\* asyncio.CancelledError: a BaseException, which `except Exception` lets by
Cancelled == Raise("CancelledError", "")

\* a returned list[FileItem]
ReturnItems(items) ==
    [kind |-> "return", flag |-> FALSE, name |-> <<>>, exc |-> "", msg |-> "",
     value |-> items]
\* returned bytes
ReturnBytes(data) ==
    [kind |-> "return", flag |-> FALSE, name |-> <<>>, exc |-> "", msg |-> "",
     value |-> data]

\* mutant: the prefix is passed on whenever one was given
ListRequest_PrefixUnlessNone(prefix, max_keys) ==
    [op |-> "list_objects_v2", Bucket |-> ConfigBucketName,
     MaxKeys |-> max_keys, Prefix |-> prefix]

\* the keyword arguments of list_objects_v2; Prefix is None when the
\* parameter is not sent
ListRequest(prefix, max_keys) ==
    [op |-> "list_objects_v2", Bucket |-> ConfigBucketName,
     MaxKeys |-> max_keys,
     Prefix |-> IF TruthyOpt(prefix) THEN prefix ELSE None]

\* one entry of the provider's result set: Key and Size may be absent; an
\* entry that is not well formed is one FileItem cannot be built from
Entry(key, size, wellFormed) ==
    [Key |-> key, Size |-> size, wellFormed |-> wellFormed]

\* str(None)
NoneStr == <<"N", "o", "n", "e">>

\* FileItem.from_s3_object: key=str(obj.get("Key")), size=obj.get("Size")
FromS3Object(e) ==
    [key |-> IF IsNone(e.Key) THEN NoneStr ELSE Val(e.Key), size |-> e.Size]

\* a value looked up in a response: absent, null, or present
Absent == [present |-> FALSE, null |-> FALSE, value |-> <<>>]
Null == [present |-> TRUE, null |-> TRUE, value |-> <<>>]
Present(v) == [present |-> TRUE, null |-> FALSE, value |-> v]

\* the list_objects_v2 response
ListReply(contents) ==
    [kind |-> "ok", code |-> None, status |-> None, Contents |-> contents]

\* mutant: the items built before the first bad entry are handed back
ListResult_Partial(r) ==
    IF r.kind # "ok" THEN ListFailedError
    ELSE IF ~r.Contents.present THEN ReturnItems(<<>>)
    ELSE IF r.Contents.null THEN ReturnItems(<<>>)
    ELSE LET es == r.Contents.value
             good == {n \in 0..Len(es) :
                         \A k \in 1..n : es[k].wellFormed}
             n == CHOOSE m \in good : \A q \in good : q <= m
         IN  ReturnItems([k \in 1..n |-> FromS3Object(es[k])])

\* list_files after the round trip: response.get("Contents", []) and the
\* comprehension, under `except Exception`
ListResult(r) ==
    IF r.kind # "ok" THEN ListFailedError
    ELSE IF ~r.Contents.present THEN ReturnItems(<<>>)
    ELSE IF r.Contents.null THEN ListFailedError
    ELSE LET es == r.Contents.value
         IN  IF \E k \in 1..Len(es) : ~es[k].wellFormed
             THEN ListFailedError
             ELSE ReturnItems([k \in 1..Len(es) |-> FromS3Object(es[k])])

GetRequest(key) ==
    [op |-> "get_object", Bucket |-> ConfigBucketName, Key |-> key]

\* a streaming body: the bytes read() hands back, or read() raises
Stream(data, readable) == [data |-> data, readable |-> readable]

\* the get_object response
GetReply(body) ==
    [kind |-> "ok", code |-> None, status |-> None, Body |-> body]

\* `resp.get("Body")` is not None
HasBody(r) == r.Body.present /\ ~r.Body.null

\* mutant: a response without a body is an error
GetResult_NoBodyRaises(r) ==
    IF r.kind # "ok" THEN FetchFailedError
    ELSE IF ~HasBody(r) THEN FetchFailedError
    ELSE NoOutcome

\* get_file_content after the get_object round trip; NoOutcome while the
\* body is still to be read
GetResult(r) ==
    IF r.kind # "ok" THEN FetchFailedError
    ELSE IF ~HasBody(r) THEN ReturnBytes(<<>>)
    ELSE NoOutcome

\* `return await body.read()`, under `except Exception`
ReadResult(stream) ==
    IF stream.readable THEN ReturnBytes(stream.data) ELSE FetchFailedError

\* a local path as upload_local_file sees it
LocalPath(exists, is_file, suffix, readable, data) ==
    [exists |-> exists, is_file |-> is_file, suffix |-> suffix,
     readable |-> readable, data |-> data]

MissingPath == LocalPath(FALSE, FALSE, "", FALSE, <<>>)
DirectoryPath == LocalPath(TRUE, FALSE, "", FALSE, <<>>)

LocalPaths ==
    {MissingPath, DirectoryPath,
     LocalPath(TRUE, TRUE, ".txt", TRUE, <<"h">>),
     LocalPath(TRUE, TRUE, "", TRUE, <<>>),
     LocalPath(TRUE, TRUE, ".txt", FALSE, <<>>)}

ContentTypes == {None, Some(""), Some("application/json")}

\* mimetypes.guess_type(str(path))[0]
GuessType(path) == IF path.suffix = ".txt" THEN Some("text/plain") ELSE None

EffectiveContentType(path, content_type) ==
    IF IsNone(content_type) THEN GuessType(path) ELSE content_type

\* the keyword arguments of put_object; ContentType is None when the
\* parameter is not sent
PutRequest(path, key, content_type) ==
    [op |-> "put_object", Bucket |-> ConfigBucketName, Key |-> key,
     Body |-> path.data,
     ContentType |->
         LET e == EffectiveContentType(path, content_type)
         IN  IF ~IsNone(e) /\ Val(e) # "" THEN e ELSE None]

\* mutant: the provider's exception is let through as it is
UploadResult_Unwrapped(key, r) ==
    IF r.kind = "ok" THEN ReturnName(key) ELSE Raise("ClientError", "")

\* upload_local_file after the put_object round trip
UploadResult(key, r) ==
    IF r.kind = "ok" THEN ReturnName(key) ELSE UploadFailedError

\* GET /s3/file/content: the status the route answers with, given what
\* get_file_content handed back; None when the exception is no Exception and
\* passes the route
FileContentStatus(o) ==
    IF o.kind = "return" THEN Some(200)
    ELSE IF o.exc = "FileNotFoundError" THEN Some(404)
    ELSE IF o.exc = "CancelledError" THEN None
    ELSE Some(500)

\* the whole route: Query(..., min_length=1) answers 422 before the service
\* is called
FileContentRoute(file_name, o) ==
    IF Len(file_name) < 1 THEN Some(422) ELSE FileContentStatus(o)

----------------------------------------------------------------------------
(* A call of a storage operation: the operation and its arguments.         *)

CallRec(o, name, prefix, max_keys, key, path, content_type) ==
    [op |-> o, name |-> name, prefix |-> prefix, max_keys |-> max_keys,
     key |-> key, path |-> path, content_type |-> content_type]

NoCall == CallRec("none", <<>>, None, DEFAULT_MAX_KEYS, <<>>, MissingPath, None)

CallExists(name) ==
    CallRec("bucket_exists", name, None, DEFAULT_MAX_KEYS, <<>>, MissingPath,
            None)
\* setup_bucket takes no argument: the name is what os.getenv hands it
CallSetup(env) ==
    CallRec("setup_bucket", IF IsNone(env) THEN <<>> ELSE Val(env), None,
            DEFAULT_MAX_KEYS, <<>>, MissingPath, None)
CallList(prefix, max_keys) ==
    CallRec("list_files", <<>>, prefix, max_keys, <<>>, MissingPath, None)
CallUpload(path, key, content_type) ==
    CallRec("upload_local_file", <<>>, None, DEFAULT_MAX_KEYS, key, path,
            content_type)
CallGet(key) ==
    CallRec("get_file_content", <<>>, None, DEFAULT_MAX_KEYS, key,
            MissingPath, None)

\* mutant: nothing is checked before the client is opened
Precheck_Nothing(c, env) == NoOutcome

\* mutant: invalid input raises an exception type of its own
Precheck_ValidationError(c, env) ==
    IF c.op = "bucket_exists"
    THEN IF IsBlank(c.name) THEN BlankNameError ELSE NoOutcome
    ELSE IF c.op = "setup_bucket"
    THEN IF ~TruthyOpt(env) THEN MissingEnvError
         ELSE IF IsBlank(Val(env)) THEN BlankNameError
         ELSE NoOutcome
    ELSE IF c.op = "upload_local_file"
    THEN IF ~Truthy(c.key) THEN Raise("ValidationError", "")
         ELSE IF ~c.path.exists \/ ~c.path.is_file
         THEN Raise("ValidationError", "")
         ELSE IF ~c.path.readable THEN UploadFailedError
         ELSE NoOutcome
    ELSE IF c.op = "get_file_content"
    THEN IF ~Truthy(c.key) THEN Raise("ValidationError", "") ELSE NoOutcome
    ELSE NoOutcome

\* what the operation raises before it creates a client, NoOutcome when it
\* goes on; in upload_local_file and get_file_content the checks stand inside
\* the try, so `except Exception` re-raises them as S3ServiceError
Precheck(c, env) ==
    IF c.op = "bucket_exists"
    THEN IF IsBlank(c.name) THEN BlankNameError ELSE NoOutcome
    ELSE IF c.op = "setup_bucket"
    THEN IF ~TruthyOpt(env) THEN MissingEnvError
         ELSE IF IsBlank(Val(env)) THEN BlankNameError
         ELSE NoOutcome
    ELSE IF c.op = "upload_local_file"
    THEN IF ~Truthy(c.key) THEN UploadFailedError
         ELSE IF ~c.path.exists \/ ~c.path.is_file THEN UploadFailedError
         ELSE IF ~c.path.readable THEN UploadFailedError
         ELSE NoOutcome
    ELSE IF c.op = "get_file_content"
    THEN IF ~Truthy(c.key) THEN FetchFailedError ELSE NoOutcome
    ELSE NoOutcome

\* the request the operation sends first
FirstRequest(c) ==
    IF c.op \in {"bucket_exists", "setup_bucket"}
    THEN HeadBucketRequest(c.name)
    ELSE IF c.op = "list_files" THEN ListRequest(c.prefix, c.max_keys)
    ELSE IF c.op = "upload_local_file"
    THEN PutRequest(c.path, c.key, c.content_type)
    ELSE GetRequest(c.key)

Step(res, next) == [result |-> res, next |-> next]

\* what the operation does with the answer `r` to its request `req`: it
\* ends with a result, or goes on to create the bucket or to read the body
AfterReply(c, req, r) ==
    IF req.op = "head_bucket"
    THEN LET res == ClassifyProbe(r)
         IN  IF c.op = "bucket_exists" THEN Step(res, "done")
             ELSE IF NeedsCreate(res) THEN Step(NoOutcome, "create")
             ELSE Step(IF res.kind = "return" THEN ReturnName(c.name)
                       ELSE res, "done")
    ELSE IF req.op = "create_bucket"
    THEN Step(IF CreateSucceeds(r) THEN ReturnName(c.name)
              ELSE CreateFailedError, "done")
    ELSE IF req.op = "list_objects_v2" THEN Step(ListResult(r), "done")
    ELSE IF req.op = "put_object" THEN Step(UploadResult(c.key, r), "done")
    ELSE LET g == GetResult(r)
         IN  IF g.kind = "none" THEN Step(NoOutcome, "read")
             ELSE Step(g, "done")

\* mutant: one client is kept and handed to every operation
NewHandle_Shared(n) == 1

\* self._client(): a new client, hence a new handle, at every call
NewHandle(n) == n + 1

\* mutant: the handle is let go only when the call succeeded
Release_OnSuccessOnly(open, h, how) ==
    IF how = "ok" THEN open \ {h} ELSE open

\* leaving `async with s3_client as s3`, however the block ended
Release(open, h, how) == open \ {h}

----------------------------------------------------------------------------
(* The storage provider.                                                   *)

\* the bucket after the provider served `req` with `resp`
ProviderApply(req, resp, b) ==
    IF resp.kind # "ok" THEN b
    ELSE IF req.op = "create_bucket" THEN "Exists"
    ELSE IF req.op = "delete_bucket" THEN "Absent"
    ELSE b

HeadResponses(faithful) ==
    IF faithful
    THEN IF bucket = "Exists" THEN {Ok}
         ELSE {ClientError(Some("NotFound"), Some(NOT_FOUND))}
    ELSE (IF bucket = "Exists" THEN {Ok} ELSE {})
         \cup ClientErrors \cup {OtherError, NoClient}

CreateResponses(faithful) ==
    IF faithful
    THEN IF bucket = "Absent" THEN {Ok}
         ELSE {ClientError(c, Some(409)) : c \in RaceCodes}
    ELSE {Ok} \cup ClientErrors \cup {OtherError, NoClient}

\* mutant: a request the provider failed is sent once more
Sent_RetryOnFailure(log, req, resp) ==
    IF resp.kind = "no_client" THEN log
    ELSE IF resp.kind = "ok" THEN Append(log, req)
    ELSE Append(Append(log, req), req)

Sent(log, req, resp) ==
    IF resp.kind = "no_client" THEN log ELSE Append(log, req)

----------------------------------------------------------------------------
(* Initial state: no operation has started.                                *)

\* S3_BUCKET_NAME: unset, empty, whitespace only, or a bucket name
EnvValues == {None, Some(<<>>), Some(<<" ">>), Some(<<"b">>)}

\* no route or tool was entered, and nothing was answered
NoEntry == [kind |-> "none"]

NoAnswer == [kind |-> "none"]

\* the environments the specifications below start in: AWS_REGION alone
SomeEnvirons ==
    {[AWS_REGION |-> r, AWS_DEFAULT_REGION |-> None] : r \in Regions}

\* the state after construction, with S3_BUCKET_NAME one of `names`, the
\* region variables one of `envs` and the bucket holding one of `sizes`
InitWith(names, envs, sizes) ==
    /\ bucket \in {"Absent", "Exists"}
    /\ bucket0 = bucket
    /\ envBucket \in names
    /\ pc = [i \in Instances |-> "idle"]
    /\ op = [i \in Instances |-> "none"]
    /\ arg = [i \in Instances |-> <<>>]
    /\ probe = [i \in Instances |-> NoResponse]
    /\ creation = [i \in Instances |-> NoResponse]
    /\ requests = [i \in Instances |-> <<>>]
    /\ checked = [i \in Instances |-> NoOutcome]
    /\ outcome = [i \in Instances |-> NoOutcome]
    /\ prev = [i \in Instances |->
                [op |-> "none", outcome |-> NoOutcome, how |-> "none"]]
    /\ ncalls = [i \in Instances |-> 0]
    /\ phase = [i \in Instances |-> "down"]
    /\ session = [i \in Instances |-> "none"]
    /\ served = [i \in Instances |-> FALSE]
    /\ tpc = [t \in Tasks |-> "idle"]
    /\ call = [t \in Tasks |-> NoCall]
    /\ sent = [t \in Tasks |-> <<>>]
    /\ got = [t \in Tasks |-> <<>>]
    /\ result = [t \in Tasks |-> NoOutcome]
    /\ handle = [t \in Tasks |-> 0]
    /\ opened = [t \in Tasks |-> {}]
    /\ handles = {}
    /\ nhandles = 0
    /\ environ \in envs
    /\ region_name = ConfigRegion(environ)
    /\ stored \in sizes
    /\ entry = [t \in Tasks |-> NoEntry]
    /\ response = [t \in Tasks |-> NoAnswer]

Init == InitWith(EnvValues, SomeEnvirons, {0})

Responses == {NoResponse, Ok, OtherError, NoClient} \cup ClientErrors

\* the shape of the state: what each variable holds
TypeOK ==
    /\ bucket \in {"Absent", "Exists"}
    /\ bucket0 \in {"Absent", "Exists"}
    /\ envBucket \in EnvValues \cup {Some(<<" ", "b">>)}
    /\ environ \in Environs
    /\ region_name \in RegionValues
    /\ stored \in Nat
    /\ pc \in [Instances -> {"idle", "probing", "creating", "done"}]
    /\ op \in [Instances -> {"none", "bucket_exists", "setup_bucket"}]
    /\ arg \in [Instances -> Names]
    /\ probe \in [Instances -> Responses]
    /\ creation \in [Instances -> Responses]
    /\ \A i \in Instances :
           /\ Len(requests[i]) <= 2
           /\ \A k \in 1..Len(requests[i]) :
                  /\ requests[i][k].op \in {"head_bucket", "create_bucket"}
                  /\ requests[i][k].Bucket = arg[i]
           /\ checked[i].kind \in {"none", "return", "raise"}
           /\ outcome[i].kind \in {"none", "return", "raise"}
           /\ prev[i].op \in {"none", "bucket_exists", "setup_bucket"}
           /\ ncalls[i] \in 0..MaxCalls
    /\ phase \in [Instances ->
                    {"down", "provisioning", "serving", "stopped", "failed"}]
    /\ session \in [Instances -> {"none", "open", "closed"}]
    /\ served \in [Instances -> BOOLEAN]
    /\ tpc \in [Tasks -> {"idle", "inflight", "reading", "done"}]
    /\ \A t \in Tasks :
           /\ call[t].op \in {"none", "bucket_exists", "setup_bucket",
                               "list_files", "upload_local_file",
                               "get_file_content"}
           /\ Len(sent[t]) <= 2
           /\ Len(got[t]) <= Len(sent[t])
           /\ result[t].kind \in {"none", "return", "raise"}
           /\ handle[t] \in 0..nhandles
           /\ opened[t] \subseteq 1..nhandles
    /\ handles \subseteq 1..nhandles
    /\ nhandles \in 0..(2 * NumTasks)

\* how the operation of instance i came to its end
How(i) ==
    IF outcome[i].kind # "return" THEN "raised"
    ELSE IF creation[i].kind = "ok" THEN "created"
    ELSE IF creation[i].kind = "client_error" THEN "raced"
    ELSE "found"

\* a caller may start an operation when none is running on its instance
CanCall(i) == pc[i] \in {"idle", "done"} /\ ncalls[i] < MaxCalls

\* bookkeeping shared by every operation start
Begin(i, o, name) ==
    /\ op' = [op EXCEPT ![i] = o]
    /\ arg' = [arg EXCEPT ![i] = name]
    /\ probe' = [probe EXCEPT ![i] = NoResponse]
    /\ creation' = [creation EXCEPT ![i] = NoResponse]
    /\ requests' = [requests EXCEPT ![i] = <<>>]
    /\ prev' = [prev EXCEPT ![i] =
                [op |-> op[i], outcome |-> outcome[i], how |-> How(i)]]
    /\ ncalls' = [ncalls EXCEPT ![i] = @ + 1]
    /\ UNCHANGED <<bucket, bucket0, envBucket>>
    /\ UNCHANGED lifeVars
    /\ UNCHANGED extVars
    /\ UNCHANGED taskVars

\* bucket_exists(bucket_name=name), up to the await of head_bucket
CallBucketExists(i, name) ==
    /\ CanCall(i)
    /\ Begin(i, "bucket_exists", name)
    /\ IF IsBlank(name)
       THEN /\ pc' = [pc EXCEPT ![i] = "done"]
            /\ checked' = [checked EXCEPT ![i] = BlankNameError]
            /\ outcome' = [outcome EXCEPT ![i] = BlankNameError]
       ELSE /\ pc' = [pc EXCEPT ![i] = "probing"]
            /\ checked' = [checked EXCEPT ![i] = NoOutcome]
            /\ outcome' = [outcome EXCEPT ![i] = NoOutcome]

\* setup_bucket(), up to the await of head_bucket inside bucket_exists
CallSetupBucket(i) ==
    /\ CanCall(i)
    /\ IF ~TruthyOpt(envBucket)
       THEN /\ Begin(i, "setup_bucket", <<>>)
            /\ pc' = [pc EXCEPT ![i] = "done"]
            /\ checked' = [checked EXCEPT ![i] = NoOutcome]
            /\ outcome' = [outcome EXCEPT ![i] = MissingEnvError]
       ELSE /\ Begin(i, "setup_bucket", Val(envBucket))
            /\ IF IsBlank(Val(envBucket))
               THEN /\ pc' = [pc EXCEPT ![i] = "done"]
                    /\ checked' = [checked EXCEPT ![i] = BlankNameError]
                    /\ outcome' = [outcome EXCEPT ![i] = BlankNameError]
               ELSE /\ pc' = [pc EXCEPT ![i] = "probing"]
                    /\ checked' = [checked EXCEPT ![i] = NoOutcome]
                    /\ outcome' = [outcome EXCEPT ![i] = NoOutcome]

\* the head_bucket round trip and everything bucket_exists does after it;
\* in setup_bucket also the `if exists: return bucket_name`
HeadBucket(i, faithful) ==
    /\ pc[i] = "probing"
    /\ \E r \in HeadResponses(faithful) :
        LET req == HeadBucketRequest(arg[i])
            res == ClassifyProbe(r)
        IN  /\ probe' = [probe EXCEPT ![i] = r]
            /\ requests' = [requests EXCEPT ![i] = Sent(@, req, r)]
            /\ bucket' = ProviderApply(req, r, bucket)
            /\ checked' = [checked EXCEPT ![i] = res]
            /\ IF op[i] = "bucket_exists"
               THEN /\ outcome' = [outcome EXCEPT ![i] = res]
                    /\ pc' = [pc EXCEPT ![i] = "done"]
               ELSE IF NeedsCreate(res)
               THEN /\ outcome' = outcome
                    /\ pc' = [pc EXCEPT ![i] = "creating"]
               ELSE /\ outcome' = [outcome EXCEPT ![i] =
                            IF res.kind = "return"
                            THEN ReturnName(arg[i]) ELSE res]
                    /\ pc' = [pc EXCEPT ![i] = "done"]
    /\ UNCHANGED <<bucket0, envBucket, op, arg, creation, prev, ncalls>>
    /\ UNCHANGED lifeVars
    /\ UNCHANGED extVars
    /\ UNCHANGED taskVars

\* _create_bucket: the create_bucket round trip, its handlers, and the
\* `return bucket_name` of setup_bucket
CreateBucket(i, faithful) ==
    /\ pc[i] = "creating"
    /\ \E r \in CreateResponses(faithful) :
        LET req == CreateBucketRequest(arg[i], CreateRegion(environ))
        IN  /\ creation' = [creation EXCEPT ![i] = r]
            /\ requests' = [requests EXCEPT ![i] = Sent(@, req, r)]
            /\ bucket' = ProviderApply(req, r, bucket)
            /\ outcome' = [outcome EXCEPT ![i] =
                    IF CreateSucceeds(r)
                    THEN ReturnName(arg[i]) ELSE CreateFailedError]
    /\ pc' = [pc EXCEPT ![i] = "done"]
    /\ UNCHANGED <<bucket0, envBucket, op, arg, probe, checked, prev, ncalls>>
    /\ UNCHANGED lifeVars
    /\ UNCHANGED extVars
    /\ UNCHANGED taskVars

----------------------------------------------------------------------------
(* Spec: one service instance, called sequentially, against a provider     *)
(* that may answer any request with any error.                             *)

Next ==
    \/ \E name \in Names : CallBucketExists(1, name)
    \/ CallSetupBucket(1)
    \/ HeadBucket(1, FALSE)
    \/ CreateBucket(1, FALSE)

Spec == Init /\ [][Next]_vars

(* SpecRace: several service instances start up against one provider that  *)
(* answers every request from the bucket's state.                          *)

NextRace ==
    \/ \E i \in Instances : CallSetupBucket(i)
    \/ \E i \in Instances : HeadBucket(i, TRUE)
    \/ \E i \in Instances : CreateBucket(i, TRUE)

SpecRace == Init /\ [][NextRace]_vars

(* SpecRegion: one startup in every environment: AWS_REGION and            *)
(* AWS_DEFAULT_REGION each unset, empty or naming a region.                *)

NextRegion ==
    \/ CallSetupBucket(1)
    \/ HeadBucket(1, FALSE)
    \/ CreateBucket(1, FALSE)

SpecRegion == InitWith(EnvValues, Environs, {0}) /\ [][NextRegion]_vars

(* SpecLifespan: the application's lifespan (main.py).  Startup opens the   *)
(* shared HTTP session, builds the setup service and awaits setup_bucket;   *)
(* the application serves requests between the yield and shutdown.          *)

\* mutant: the session is closed after the yield only, not in a finally
SessionOnExit_ShutdownOnly(s, how) == IF how = "shutdown" THEN "closed" ELSE s

\* `finally: await app.state.http_session.close()`: the session as the
\* lifespan leaves it, however it is left
SessionOnExit(s, how) == "closed"

StartupCompletes_Always(o) == TRUE

\* the `yield` follows `await setup_bucket()`: it is reached only when that
\* call returned
StartupCompletes(o) == o.kind = "return"

\* lifespan up to get_s3_setup_service(): S3Config.from_env() raises
\* ValueError when S3_BUCKET_NAME is unset or empty, and the finally closes
\* the session
LifespanEnter(i) ==
    /\ phase[i] = "down"
    /\ IF ~TruthyOpt(envBucket)
       THEN /\ phase' = [phase EXCEPT ![i] = "failed"]
            /\ session' = [session EXCEPT ![i] =
                               SessionOnExit("open", "startup_error")]
       ELSE /\ phase' = [phase EXCEPT ![i] = "provisioning"]
            /\ session' = [session EXCEPT ![i] = "open"]
    /\ UNCHANGED served
    /\ UNCHANGED setupVars
    /\ UNCHANGED taskVars
    /\ UNCHANGED extVars

\* `await get_s3_setup_service().setup_bucket()`, up to its first await
LifespanSetup(i) ==
    /\ phase[i] = "provisioning"
    /\ ncalls[i] = 0
    /\ CallSetupBucket(i)

\* setup_bucket has ended: the lifespan yields, or the exception leaves it
\* through the finally
LifespanYield(i) ==
    /\ phase[i] = "provisioning"
    /\ ncalls[i] > 0
    /\ pc[i] = "done"
    /\ IF StartupCompletes(outcome[i])
       THEN /\ phase' = [phase EXCEPT ![i] = "serving"]
            /\ UNCHANGED session
       ELSE /\ phase' = [phase EXCEPT ![i] = "failed"]
            /\ session' = [session EXCEPT ![i] =
                               SessionOnExit(@, "startup_error")]
    /\ UNCHANGED served
    /\ UNCHANGED setupVars
    /\ UNCHANGED taskVars
    /\ UNCHANGED extVars

\* the application handles a request
Serve(i) ==
    /\ phase[i] = "serving"
    /\ served' = [served EXCEPT ![i] = TRUE]
    /\ UNCHANGED <<phase, session>>
    /\ UNCHANGED setupVars
    /\ UNCHANGED taskVars
    /\ UNCHANGED extVars

\* shutdown: control returns after the yield and the finally closes the
\* session
LifespanExit(i) ==
    /\ phase[i] = "serving"
    /\ phase' = [phase EXCEPT ![i] = "stopped"]
    /\ session' = [session EXCEPT ![i] = SessionOnExit(@, "shutdown")]
    /\ UNCHANGED served
    /\ UNCHANGED setupVars
    /\ UNCHANGED taskVars
    /\ UNCHANGED extVars

\* startup is cancelled while setup_bucket awaits the provider:
\* CancelledError leaves setup_bucket and the lifespan through the finally
LifespanCancel(i) ==
    /\ phase[i] = "provisioning"
    /\ pc[i] \in {"probing", "creating"}
    /\ pc' = [pc EXCEPT ![i] = "done"]
    /\ outcome' = [outcome EXCEPT ![i] = Cancelled]
    /\ phase' = [phase EXCEPT ![i] = "failed"]
    /\ session' = [session EXCEPT ![i] = SessionOnExit(@, "cancelled")]
    /\ UNCHANGED <<bucket, bucket0, envBucket, op, arg, probe, creation,
                   requests, checked, prev, ncalls, served>>
    /\ UNCHANGED taskVars
    /\ UNCHANGED extVars

NextLifespan ==
    \/ LifespanEnter(1)
    \/ LifespanSetup(1)
    \/ HeadBucket(1, FALSE)
    \/ CreateBucket(1, FALSE)
    \/ LifespanYield(1)
    \/ LifespanCancel(1)
    \/ Serve(1)
    \/ LifespanExit(1)

SpecLifespan == Init /\ [][NextLifespan]_vars

----------------------------------------------------------------------------
(* Storage operations as tasks of one event loop.  Each task runs one      *)
(* operation; it yields at every await, where another task may run or the  *)
(* caller may cancel it.                                                   *)

\* result sets of list_objects_v2
Entries ==
    {Entry(None, None, TRUE), Entry(Some(<<"b">>), Some(1), TRUE),
     Entry(Some(<<"b", "b">>), None, TRUE), Entry(None, None, FALSE)}

ResultSets == UNION {[1..n -> Entries] : n \in 0..MaxEntries}

Bodies ==
    {Absent, Null} \cup
    {Present(Stream(d, rd)) : d \in Blobs, rd \in BOOLEAN}

\* failures of an object call: a ClientError or any other exception
ObjectErrors ==
    {ClientError(Some("InternalError"), Some(500)),
     ClientError(Some("AccessDenied"), Some(FORBIDDEN)), OtherError}

\* the calls a caller may make
Calls(rich) ==
    IF rich
    THEN {CallExists(n) : n \in Names} \cup {CallSetup(envBucket)}
         \cup {CallList(p, m) : p \in Prefixes, m \in MaxKeysValues}
         \cup {CallUpload(f, k, ct) :
                   f \in LocalPaths, k \in Keys, ct \in ContentTypes}
         \cup {CallGet(k) : k \in Keys}
    ELSE {CallExists(<<"b">>), CallSetup(envBucket),
          CallList(None, DEFAULT_MAX_KEYS),
          CallUpload(LocalPath(TRUE, TRUE, ".txt", TRUE, <<"h">>), <<"b">>,
                     None),
          CallGet(<<"b">>)}

\* the answers the provider may give to `req`
Replies(req, rich) ==
    IF req.op = "head_bucket"
    THEN IF rich THEN HeadResponses(FALSE) \ {NoClient}
         ELSE HeadResponses(TRUE) \cup {OtherError}
    ELSE IF req.op = "create_bucket"
    THEN IF rich THEN CreateResponses(FALSE) \ {NoClient}
         ELSE CreateResponses(TRUE) \cup {OtherError}
    ELSE IF req.op = "list_objects_v2"
    THEN IF rich
         THEN {ListReply(Absent), ListReply(Null)}
              \cup {ListReply(Present(es)) : es \in ResultSets}
              \cup ObjectErrors
         ELSE {ListReply(Present(<<Entry(Some(<<"b">>), Some(1), TRUE)>>)),
               OtherError}
    ELSE IF req.op = "put_object"
    THEN IF rich THEN {Ok} \cup ObjectErrors ELSE {Ok, OtherError}
    ELSE IF rich THEN {GetReply(b) : b \in Bodies} \cup ObjectErrors
         ELSE {GetReply(Present(Stream(<<"h">>, TRUE))), OtherError}

Last(q) == q[Len(q)]

\* the operation ends: its handle, if it holds one, is let go
Finish(t, res, how) ==
    /\ tpc' = [tpc EXCEPT ![t] = "done"]
    /\ result' = [result EXCEPT ![t] = res]
    /\ handle' = [handle EXCEPT ![t] = 0]
    /\ handles' = IF handle[t] = 0 THEN handles
                  ELSE Release(handles, handle[t], how)

\* mutant: the request is sent a second time
Open_Resend(t, req) ==
    LET h == NewHandle(nhandles)
    IN  /\ handle' = [handle EXCEPT ![t] = h]
        /\ opened' = [opened EXCEPT ![t] = @ \cup {h}]
        /\ nhandles' = nhandles + 1
        /\ sent' = [sent EXCEPT ![t] = Append(Append(@, req), req)]

\* the operation enters `async with self._client()` and sends `req`
Open(t, req) ==
    LET h == NewHandle(nhandles)
    IN  /\ handle' = [handle EXCEPT ![t] = h]
        /\ opened' = [opened EXCEPT ![t] = @ \cup {h}]
        /\ nhandles' = nhandles + 1
        /\ sent' = [sent EXCEPT ![t] = Append(@, req)]

\* the operation is called and runs up to its first await: it is rejected,
\* or creating the client fails, or the first request is in flight
TaskCall(t, c) ==
    /\ tpc[t] = "idle"
    /\ call' = [call EXCEPT ![t] = c]
    /\ LET pre == Precheck(c, envBucket)
       IN  IF pre.kind # "none"
           THEN /\ Finish(t, pre, "error")
                /\ UNCHANGED <<sent, opened, nhandles>>
           ELSE \/ /\ Finish(t, AfterReply(c, FirstRequest(c),
                                            NoClient).result, "error")
                   /\ UNCHANGED <<sent, opened, nhandles>>
                \/ /\ Open(t, FirstRequest(c))
                   /\ handles' = handles \cup {NewHandle(nhandles)}
                   /\ tpc' = [tpc EXCEPT ![t] = "inflight"]
                   /\ UNCHANGED result
    /\ UNCHANGED <<bucket, got>>
    /\ UNCHANGED instVars
    /\ UNCHANGED lifeVars
    /\ UNCHANGED extVars

\* the provider answers the request in flight and the operation runs on to
\* its end or to its next await
Answered(t, r) ==
    /\ tpc[t] = "inflight"
    /\ LET req == Last(sent[t])
           a == AfterReply(call[t], req, r)
           how == IF r.kind = "ok" THEN "ok" ELSE "error"
       IN  /\ got' = [got EXCEPT ![t] = Append(@, r)]
           /\ bucket' = ProviderApply(req, r, bucket)
           /\ IF a.next = "done"
              THEN /\ Finish(t, a.result, how)
                   /\ UNCHANGED <<sent, opened, nhandles>>
              ELSE IF a.next = "read"
              THEN /\ tpc' = [tpc EXCEPT ![t] = "reading"]
                   /\ UNCHANGED <<result, handle, handles, sent, opened,
                                  nhandles>>
              ELSE \/ /\ Finish(t, CreateFailedError, how)
                      /\ UNCHANGED <<sent, opened, nhandles>>
                   \/ /\ Open(t, CreateBucketRequest(call[t].name,
                                                   CreateRegion(environ)))
                      /\ handles' =
                             Release(handles, handle[t], how)
                             \cup {NewHandle(nhandles)}
                      /\ UNCHANGED <<tpc, result>>
    /\ UNCHANGED call
    /\ UNCHANGED instVars
    /\ UNCHANGED lifeVars
    /\ UNCHANGED extVars

\* a provider that may answer with anything it can answer with
TaskReply(t, rich) ==
    /\ tpc[t] = "inflight"
    /\ \E r \in Replies(Last(sent[t]), rich) : Answered(t, r)

\* get_file_content: `await body.read()` ends
TaskRead(t) ==
    /\ tpc[t] = "reading"
    /\ LET stream == Last(got[t]).Body.value
       IN  Finish(t, ReadResult(stream),
                  IF stream.readable THEN "ok" ELSE "error")
    /\ UNCHANGED <<bucket, call, sent, got, opened, nhandles>>
    /\ UNCHANGED instVars
    /\ UNCHANGED lifeVars
    /\ UNCHANGED extVars

\* the caller cancels the task at the await it is suspended in:
\* CancelledError passes `except Exception` and leaves through `async with`
TaskCancel(t) ==
    /\ tpc[t] \in {"inflight", "reading"}
    /\ Finish(t, Cancelled, "cancelled")
    /\ UNCHANGED <<bucket, call, sent, got, opened, nhandles>>
    /\ UNCHANGED instVars
    /\ UNCHANGED lifeVars
    /\ UNCHANGED extVars

(* SpecObjects: one operation, with every argument and every answer.       *)

NextObjects ==
    \/ \E c \in Calls(TRUE) : TaskCall(1, c)
    \/ TaskReply(1, TRUE)
    \/ TaskRead(1)
    \/ TaskCancel(1)

SpecObjects == Init /\ [][NextObjects]_vars

(* SpecTasks: several operations in flight at once on one service.         *)

NextTasks ==
    \/ \E t \in Tasks : \E c \in Calls(FALSE) : TaskCall(t, c)
    \/ \E t \in Tasks : TaskReply(t, FALSE)
    \/ \E t \in Tasks : TaskRead(t)
    \/ \E t \in Tasks : TaskCancel(t)

SpecTasks == Init /\ [][NextTasks]_vars

----------------------------------------------------------------------------
(* The HTTP routes (app/routes/s3.py, main.py) and the tool adapters        *)
(* (shared/tools.py).  A request enters a route or a tool, which calls one  *)
(* operation of the service and answers with what it handed back.           *)

RECURSIVE Decimal(_)
\* str(n)
Decimal(n) ==
    LET digit == <<"0", "1", "2", "3", "4", "5", "6", "7", "8", "9">>[
                     (n % 10) + 1]
    IN  IF n < 10 THEN <<digit>> ELSE Append(Decimal(n \div 10), digit)

\* the provider's store: the bucket holds objects 1..n, the first under the
\* key "b" and the k-th under "b<k>"
StoredKey(k) == IF k = 1 THEN <<"b">> ELSE <<"b">> \o Decimal(k)

MatchesPrefix(key, prefix) ==
    /\ Len(prefix) <= Len(key)
    /\ \A j \in 1..Len(prefix) : key[j] = prefix[j]

\* the stored objects a list_objects_v2 request asks for
Matching(req, n) ==
    {k \in 1..n : IsNone(req.Prefix) \/ MatchesPrefix(StoredKey(k),
                                                       Val(req.Prefix))}

NoSuchKey == ClientError(Some("NoSuchKey"), Some(NOT_FOUND))

\* what the provider answers to `req` from its state: bucket `b` holding `n`
\* objects.  list_objects_v2 hands back at most MaxKeys entries, and no
\* Contents at all when nothing matches
StoreReply(req, b, n) ==
    IF req.op = "head_bucket"
    THEN IF b = "Exists" THEN Ok
         ELSE ClientError(Some("NotFound"), Some(NOT_FOUND))
    ELSE IF b # "Exists"
    THEN ClientError(Some("NoSuchBucket"), Some(NOT_FOUND))
    ELSE IF req.op = "list_objects_v2"
    THEN LET c == Cardinality(Matching(req, n))
             m == IF c <= req.MaxKeys THEN c ELSE req.MaxKeys
         IN  IF m = 0 THEN ListReply(Absent)
             ELSE ListReply(Present(
                      [k \in 1..m |-> Entry(Some(StoredKey(k)), Some(1),
                                            TRUE)]))
    ELSE IF req.op = "get_object"
    THEN IF \E k \in 1..n : StoredKey(k) = req.Key
         THEN GetReply(Present(Stream(<<"h">>, TRUE)))
         ELSE NoSuchKey
    ELSE Ok

\* the provider answers from its state, or fails
TaskServe(t) ==
    /\ tpc[t] = "inflight"
    /\ \E r \in {StoreReply(Last(sent[t]), bucket, stored)}
                  \cup ObjectErrors :
           Answered(t, r)

\* an entry point and its arguments
EntryRec(kind, name, bucket_name, prefix, max_keys, key) ==
    [kind |-> kind, name |-> name, bucket_name |-> bucket_name,
     prefix |-> prefix, max_keys |-> max_keys, key |-> key]

\* the four routes of app/routes/s3.py: bucket_exists, bucket_files_count
\* and list_files with their prefix, get_file_content with its file_name
RouteEntries ==
    {EntryRec("route", "bucket_exists", <<>>, None, DEFAULT_MAX_KEYS, <<>>)}
    \cup {EntryRec("route", n, <<>>, p, DEFAULT_MAX_KEYS, <<>>) :
              n \in {"bucket_files_count", "list_files"}, p \in Prefixes}
    \cup {EntryRec("route", "get_file_content", <<>>, None,
                   DEFAULT_MAX_KEYS, k) : k \in Keys}

\* `(os.getenv("S3_BUCKET_NAME") or "").strip()`
RouteBucketName(env) == Strip(IF TruthyOpt(env) THEN Val(env) ELSE <<>>)

\* DEFAULT_SAGEMAKER_DOCS_BUCKET_NAME, given that the module was imported
DefaultBucketName(env) == Strip(Val(env))

\* shared/tools.py is imported only when S3_BUCKET_NAME is set: from_env
\* raises otherwise, and no tool exists
ToolEntries(env) ==
    IF ~TruthyOpt(env) THEN {}
    ELSE {EntryRec("tool", "s3_bucket_exists", n, None, DEFAULT_MAX_KEYS,
                   <<>>) : n \in {DefaultBucketName(env), <<>>, <<"b">>}}
         \cup {EntryRec("tool", "s3_list_bucket_files", <<>>, p, m, <<>>) :
                   p \in Prefixes, m \in MaxKeysValues}
         \cup {EntryRec("tool", "s3_get_file_content", <<>>, None,
                        DEFAULT_MAX_KEYS, k) : k \in Keys}

\* an HTTP response
Http(status, body) == [kind |-> "http", status |-> status, body |-> body]

\* an exception no handler is registered for
InternalServerError == Http(500, [text |-> "Internal Server Error"])

\* RequestValidationError
Unprocessable == Http(422, [detail |-> "validation"])

\* the request was cancelled: nobody is answered
Dropped == [kind |-> "dropped"]

\* what a tool hands its host
ToolReturn(body) == [kind |-> "tool_return", body |-> body]
ToolRaise(exc, msg) == [kind |-> "tool_raise", exc |-> exc, msg |-> msg]

\* mutant: the handler answers 500
S3ServiceErrorHandler_500(o) == Http(500, [detail |-> o.msg])

\* main.py: @app.exception_handler(S3ServiceError)
S3ServiceErrorHandler(o) == Http(502, [detail |-> o.msg])

\* a route up to its call of the service: Depends(get_s3_service) raises
\* ValueError when S3_BUCKET_NAME is unset or empty, Query(min_length=1)
\* refuses an empty file_name, and bucket_exists and bucket_files_count
\* raise ValueError when the stripped name is empty
RouteBefore(e, env) ==
    IF ~TruthyOpt(env) THEN InternalServerError
    ELSE IF e.name = "get_file_content" /\ Len(e.key) < 1 THEN Unprocessable
    ELSE IF /\ e.name \in {"bucket_exists", "bucket_files_count"}
            /\ ~Truthy(RouteBucketName(env))
    THEN InternalServerError
    ELSE NoAnswer

\* a tool up to its call of the service: _get_s3_service raises ValueError
\* when the default name is blank; s3_get_file_content calls
\* get_file_content(key=..., encoding=...), a keyword the method does not
\* take, so the call raises TypeError before the method runs
ToolBefore(e, env) ==
    IF ~Truthy(DefaultBucketName(env))
    THEN ToolRaise("ValueError", "bucket_name must be provided")
    ELSE IF e.name = "s3_get_file_content"
    THEN ToolRaise("TypeError", "unexpected keyword argument 'encoding'")
    ELSE NoAnswer

\* the call of the service an entry point makes
ServiceCall(e, env) ==
    IF e.name = "bucket_exists" THEN CallExists(RouteBucketName(env))
    ELSE IF e.name = "s3_bucket_exists" THEN CallExists(e.bucket_name)
    ELSE IF e.name \in {"bucket_files_count", "list_files"}
    THEN CallList(e.prefix, DEFAULT_MAX_KEYS)
    ELSE IF e.name = "s3_list_bucket_files"
    THEN CallList(e.prefix, e.max_keys)
    ELSE CallGet(e.key)

\* mutant: bucket_exists reports the name as the environment holds it
Body_RawName(e, env, o) ==
    IF e.name = "bucket_exists"
    THEN [bucket_name |-> Val(env), exists |-> o.flag]
    ELSE IF e.name = "s3_bucket_exists"
    THEN [bucket_name |-> e.bucket_name, exists |-> o.flag]
    ELSE IF e.name = "bucket_files_count"
    THEN [bucket_name |-> RouteBucketName(env), prefix |-> e.prefix,
          count |-> Len(o.value)]
    ELSE IF e.name \in {"list_files", "s3_list_bucket_files"}
    THEN [count |-> Len(o.value), files |-> o.value]
    ELSE IF e.name = "get_file_content" THEN [content |-> o.value]
    ELSE [filename |-> e.key, content |-> o.value]

\* the body a route or tool builds from what the service returned
Body(e, env, o) ==
    IF e.name = "bucket_exists"
    THEN [bucket_name |-> RouteBucketName(env), exists |-> o.flag]
    ELSE IF e.name = "s3_bucket_exists"
    THEN [bucket_name |-> e.bucket_name, exists |-> o.flag]
    ELSE IF e.name = "bucket_files_count"
    THEN [bucket_name |-> RouteBucketName(env), prefix |-> e.prefix,
          count |-> Len(o.value)]
    ELSE IF e.name \in {"list_files", "s3_list_bucket_files"}
    THEN [count |-> Len(o.value), files |-> o.value]
    ELSE IF e.name = "get_file_content" THEN [content |-> o.value]
    ELSE [filename |-> e.key, content |-> o.value]

\* a route after the service call: get_file_content catches every Exception
\* itself; from the other routes S3ServiceError reaches the handler of
\* main.py and any other exception is unhandled
RouteAfter(e, env, o) ==
    IF e.name = "get_file_content"
    THEN LET st == FileContentStatus(o)
         IN  IF IsNone(st) THEN Dropped
             ELSE IF st = Some(200) THEN Http(200, Body(e, env, o))
             ELSE IF st = Some(NOT_FOUND)
             THEN Http(NOT_FOUND, [detail |-> "File not found"])
             ELSE Http(500, [detail |-> "Failed to fetch file content"])
    ELSE IF o.kind = "return" THEN Http(200, Body(e, env, o))
    ELSE IF o.exc = "CancelledError" THEN Dropped
    ELSE IF o.exc = "S3ServiceError" THEN S3ServiceErrorHandler(o)
    ELSE InternalServerError

\* a tool after the service call: the value wrapped, or the exception as is
ToolAfter(e, env, o) ==
    IF o.kind = "return" THEN ToolReturn(Body(e, env, o))
    ELSE ToolRaise(o.exc, o.msg)

\* a request enters a route, or a host calls a tool; it runs up to the
\* service call
Enter(t, e) ==
    /\ entry[t] = NoEntry
    /\ tpc[t] = "idle"
    /\ entry' = [entry EXCEPT ![t] = e]
    /\ response' = [response EXCEPT ![t] =
                        IF e.kind = "route" THEN RouteBefore(e, envBucket)
                        ELSE ToolBefore(e, envBucket)]
    /\ UNCHANGED <<environ, region_name, stored>>
    /\ UNCHANGED setupVars
    /\ UNCHANGED lifeVars
    /\ UNCHANGED taskVars

\* `await s3.<operation>(...)`, up to the operation's first await
Invoke(t) ==
    /\ entry[t] # NoEntry
    /\ response[t] = NoAnswer
    /\ TaskCall(t, ServiceCall(entry[t], envBucket))

\* the operation has ended and the route or tool answers
Respond(t) ==
    /\ entry[t] # NoEntry
    /\ response[t] = NoAnswer
    /\ tpc[t] = "done"
    /\ response' = [response EXCEPT ![t] =
                        IF entry[t].kind = "route"
                        THEN RouteAfter(entry[t], envBucket, result[t])
                        ELSE ToolAfter(entry[t], envBucket, result[t])]
    /\ UNCHANGED <<environ, region_name, stored, entry>>
    /\ UNCHANGED setupVars
    /\ UNCHANGED lifeVars
    /\ UNCHANGED taskVars

\* the routes start with S3_BUCKET_NAME as in EnvValues or a name to strip,
\* no region set, and a bucket that is empty, holds one object, a full page
\* of list_objects_v2, or one object more
InitRoutes ==
    InitWith(EnvValues \cup {Some(<<" ", "b">>)},
             {[AWS_REGION |-> None, AWS_DEFAULT_REGION |-> None]},
             {0, 1, DEFAULT_MAX_KEYS, DEFAULT_MAX_KEYS + 1})

(* SpecRoutes: one HTTP request against a provider that answers from its    *)
(* store or fails.                                                          *)

NextRoutes ==
    \/ \E e \in RouteEntries : Enter(1, e)
    \/ Invoke(1)
    \/ TaskServe(1)
    \/ TaskRead(1)
    \/ TaskCancel(1)
    \/ Respond(1)

SpecRoutes == InitRoutes /\ [][NextRoutes]_vars

(* SpecTools: one call of a tool adapter, or one request to a route,        *)
(* against the same provider.                                               *)

NextTools ==
    \/ \E e \in RouteEntries \cup ToolEntries(envBucket) : Enter(1, e)
    \/ Invoke(1)
    \/ TaskServe(1)
    \/ TaskRead(1)
    \/ TaskCancel(1)
    \/ Respond(1)

SpecTools == InitRoutes /\ [][NextTools]_vars

----------------------------------------------------------------------------
(* POST /document/chunks (app/routes/document.py) and                       *)
(* DocumentService.chunk_text.  The handler never awaits: it runs in one    *)
(* step.                                                                    *)

\* RecursiveCharacterTextSplitter(...).split_text(text): the lists of chunks
\* the splitter may hand back
SplitResults(text) == UNION {[1..n -> {<<"b">>}] : n \in 0..Len(text)}

\* mutant: the sizes are checked before the text is looked at
DocumentChunkText_SizesFirst(text, chunk_size, chunk_overlap, chunks) ==
    IF chunk_size <= 0 THEN Raise("ValueError", "chunk_size must be > 0")
    ELSE IF chunk_overlap < 0
    THEN Raise("ValueError", "chunk_overlap must be >= 0")
    ELSE IF chunk_overlap >= chunk_size
    THEN Raise("ValueError", "chunk_overlap must be < chunk_size")
    ELSE IF ~Truthy(Strip(text)) THEN ReturnItems(<<>>)
    ELSE ReturnItems(chunks)

\* DocumentService.chunk_text; `chunks` is what the splitter hands back
DocumentChunkText(text, chunk_size, chunk_overlap, chunks) ==
    IF ~Truthy(Strip(text)) THEN ReturnItems(<<>>)
    ELSE IF chunk_size <= 0 THEN Raise("ValueError", "chunk_size must be > 0")
    ELSE IF chunk_overlap < 0
    THEN Raise("ValueError", "chunk_overlap must be >= 0")
    ELSE IF chunk_overlap >= chunk_size
    THEN Raise("ValueError", "chunk_overlap must be < chunk_size")
    ELSE ReturnItems(chunks)

\* the route: Query(ge=1) and Query(ge=0) answer 422 before the handler
\* runs; the handler answers ValueError with 400
ChunkTextRoute(text, chunk_size, chunk_overlap, chunks) ==
    IF chunk_size < 1 \/ chunk_overlap < 0 THEN Unprocessable
    ELSE LET o == DocumentChunkText(text, chunk_size, chunk_overlap, chunks)
         IN  IF o.kind = "raise" THEN Http(400, [detail |-> o.msg])
             ELSE Http(200, [count |-> Len(o.value),
                             chunk_size |-> chunk_size,
                             chunk_overlap |-> chunk_overlap,
                             chunks |-> o.value])

\* one request to POST /document/chunks
PostChunks(t, text, chunk_size, chunk_overlap) ==
    /\ entry[t] = NoEntry
    /\ tpc[t] = "idle"
    /\ \E chunks \in SplitResults(text) :
        response' = [response EXCEPT ![t] =
            ChunkTextRoute(text, chunk_size, chunk_overlap, chunks)]
    /\ entry' = [entry EXCEPT ![t] =
           [kind |-> "route", name |-> "chunk_text", text |-> text,
            chunk_size |-> chunk_size, chunk_overlap |-> chunk_overlap]]
    /\ UNCHANGED <<environ, region_name, stored>>
    /\ UNCHANGED setupVars
    /\ UNCHANGED lifeVars
    /\ UNCHANGED taskVars

(* SpecDocument: one request to POST /document/chunks.                      *)

NextDocument ==
    \E text \in Names, chunk_size \in -1..MaxChunkSize,
       chunk_overlap \in -1..(MaxChunkSize + 1) :
        PostChunks(1, text, chunk_size, chunk_overlap)

SpecDocument == Init /\ [][NextDocument]_vars

----------------------------------------------------------------------------
(* Properties of bucket_exists (checked under Spec).                       *)

Done(i) == pc[i] = "done"

\* instance i has its head_bucket probe behind it
Probed(i) == probe[i].kind # "none"

NotFoundResponse(r) ==
    /\ r.kind = "client_error"
    /\ (r.status = <<404>> \/ r.code \in {<<"NoSuchBucket">>, <<"NotFound">>})

ForbiddenResponse(r) ==
    /\ r.kind = "client_error"
    /\ (r.status = <<403>> \/ r.code = <<"AccessDenied">>)

\* the probe failed: the provider answered with an error, the call raised
\* something else, or the client could not be opened
FailedProbe(r) == r.kind \in {"client_error", "exception", "no_client"}

RaisedAccessDenied(o) ==
    /\ o.kind = "raise"
    /\ o.exc = "S3ServiceError"
    /\ o.msg = "Access denied checking S3 bucket"

RaisedCheckFailed(o) ==
    /\ o.kind = "raise"
    /\ o.exc = "S3ServiceError"
    /\ o.msg = "Failed to check if S3 bucket exists"

ReturnedFalse(o) == o.kind = "return" /\ o.flag = FALSE
ReturnedTrue(o) == o.kind = "return" /\ o.flag = TRUE

\* C1: bucket_exists returns false exactly when the probe failed with status
\* 404 or with a code of the no-such-bucket family, whatever the other half of
\* the error says.
C1_FalseIffNotFound ==
    \A i \in Instances :
        Probed(i) =>
            (ReturnedFalse(checked[i]) <=> NotFoundResponse(probe[i]))

\* C2 as stated: bucket_exists raises the access-denied error exactly when the
\* probe failed with status 403 or with code AccessDenied.
C2_AccessDeniedIffForbidden ==
    \A i \in Instances :
        Probed(i) =>
            (RaisedAccessDenied(checked[i]) <=> ForbiddenResponse(probe[i]))

\* the status is one HTTPStatus(status) accepts: no int, or a registered code
RecognisedStatus(r) == r.status = <<>> \/ r.status[1] \in HTTPStatusValues

\* C2 amended: bucket_exists raises the access-denied error exactly when the
\* probe failed with status 403 or code AccessDenied, the failure is not a
\* not-found one (status 404 or a no-such-bucket code come first and give
\* false), and the status is absent or a registered HTTP status.
C2_AccessDeniedIffForbiddenNotAbsent ==
    \A i \in Instances :
        Probed(i) =>
            (RaisedAccessDenied(checked[i]) <=>
                /\ ForbiddenResponse(probe[i])
                /\ ~NotFoundResponse(probe[i])
                /\ RecognisedStatus(probe[i]))

\* C2 witness: a bucket_exists whose probe was answered AccessDenied / 403
\* has ended in the access-denied error.
C2_Witness ==
    \E i \in Instances :
        /\ Done(i)
        /\ op[i] = "bucket_exists"
        /\ probe[i] = ClientError(<<"AccessDenied">>, <<403>>)
        /\ RaisedAccessDenied(outcome[i])

\* C3: a probe failure that is neither not-found nor forbidden always ends in
\* the generic S3ServiceError, never in false and never in another exception.
C3_OtherFailureIsServiceError ==
    \A i \in Instances :
        ( /\ Probed(i)
          /\ FailedProbe(probe[i])
          /\ ~NotFoundResponse(probe[i])
          /\ ~ForbiddenResponse(probe[i]) )
        => RaisedCheckFailed(checked[i])

\* C4: for a non-blank name, bucket_exists returns true exactly when the probe
\* completed without error, and then exactly one head_bucket request for that
\* name was sent.
C4_TrueIffProbeOk ==
    \A i \in Instances :
        (Probed(i) /\ ~IsBlank(arg[i])) =>
            /\ ReturnedTrue(checked[i]) <=> probe[i].kind = "ok"
            /\ ReturnedTrue(checked[i]) =>
                requests[i] = << [op |-> "head_bucket", Bucket |-> arg[i],
                                  Location |-> <<>>] >>

C4_Witness ==
    \E i \in Instances :
        /\ Done(i)
        /\ op[i] = "bucket_exists"
        /\ arg[i] = <<"b">>
        /\ outcome[i] = ReturnBool(TRUE)
        /\ Len(requests[i]) = 1

----------------------------------------------------------------------------
(* Properties of setup_bucket.                                             *)

IsSetup(i) == op[i] = "setup_bucket"

Returned(i) == outcome[i].kind = "return"

RaisedSetupError(o) == o.kind = "raise" /\ o.exc = "S3SetupServiceError"

RaceResponse(r) ==
    /\ r.kind = "client_error"
    /\ r.code \in {<<"BucketAlreadyOwnedByYou">>, <<"BucketAlreadyExists">>}

CreateRequests(i) ==
    {k \in 1..Len(requests[i]) : requests[i][k].op = "create_bucket"}

\* C5 (SpecRace): when setup_bucket has returned and is called again on the
\* same instance, the second call returns too, whether the first call found
\* the bucket, created it or accepted a creation race.
C5_SecondSetupNeverRaises ==
    \A i \in Instances :
        ( /\ Done(i)
          /\ IsSetup(i)
          /\ prev[i].op = "setup_bucket"
          /\ prev[i].outcome.kind = "return" )
        => /\ Returned(i)
           /\ outcome[i].name = prev[i].outcome.name

\* C5 witness: two instances have each finished a second call, one after
\* creating the bucket in its first call and one after accepting a race.
C5_Witness ==
    \E i, j \in Instances :
        /\ Done(i) /\ IsSetup(i) /\ prev[i].how = "created" /\ Returned(i)
        /\ Done(j) /\ IsSetup(j) /\ prev[j].how = "raced" /\ Returned(j)

\* C6 (Spec): when create_bucket fails with BucketAlreadyOwnedByYou or
\* BucketAlreadyExists, setup_bucket returns the bucket name.
C6_RaceCodeIsSuccess ==
    \A i \in Instances :
        (Done(i) /\ IsSetup(i) /\ RaceResponse(creation[i]))
        => outcome[i] = ReturnName(arg[i])

C6_Witness ==
    \E i \in Instances :
        /\ Done(i)
        /\ IsSetup(i)
        /\ creation[i].kind = "client_error"
        /\ creation[i].code = <<"BucketAlreadyExists">>
        /\ outcome[i] = ReturnName(<<"b">>)

\* C7 (SpecRace): instances racing to set up the same, initially absent
\* bucket all return the bucket name, and the bucket exists once all of them
\* have finished.
C7_RacingSetupsAllSucceed ==
    (bucket0 = "Absent" /\ envBucket = << <<"b">> >>) =>
        /\ \A i \in Instances :
               (Done(i) /\ IsSetup(i)) => outcome[i] = ReturnName(<<"b">>)
        /\ (\A i \in Instances : Done(i)) => bucket = "Exists"

\* C7 witness: every instance has finished its one call, the bucket was
\* absent at the start, one create succeeded and another was answered with a
\* race code.
C7_Witness ==
    /\ bucket0 = "Absent"
    /\ \A i \in Instances : Done(i) /\ ncalls[i] = 1 /\ Returned(i)
    /\ \E i, j \in Instances :
        creation[i].kind = "ok" /\ RaceResponse(creation[j])

\* C8 (Spec): setup_bucket sends create_bucket only after bucket_exists
\* returned false; after true it returns the name with no create request, and
\* after a raise the same error leaves setup_bucket and no create is sent.
C8_CreateOnlyAfterFalse ==
    \A i \in Instances :
        IsSetup(i) =>
            /\ (pc[i] = "creating" \/ CreateRequests(i) # {})
                   => ReturnedFalse(checked[i])
            /\ ReturnedTrue(checked[i]) =>
                   /\ Done(i)
                   /\ outcome[i] = ReturnName(arg[i])
                   /\ CreateRequests(i) = {}
            /\ checked[i].kind = "raise" =>
                   /\ Done(i)
                   /\ outcome[i] = checked[i]
                   /\ CreateRequests(i) = {}

\* C8 witness: a setup_bucket whose probe was answered 403 has ended in the
\* access-denied error with only the head_bucket request sent.
C8_Witness ==
    \E i \in Instances :
        /\ IsSetup(i)
        /\ Done(i)
        /\ RaisedAccessDenied(outcome[i])
        /\ Len(requests[i]) = 1
        /\ requests[i][1].op = "head_bucket"

\* C9 (Spec): every create_bucket failure other than the two race codes makes
\* setup_bucket raise S3SetupServiceError.
C9_OtherCreateFailureRaises ==
    \A i \in Instances :
        ( /\ Done(i)
          /\ IsSetup(i)
          /\ creation[i].kind \in {"client_error", "exception", "no_client"}
          /\ ~RaceResponse(creation[i]) )
        => RaisedSetupError(outcome[i])

C9_Witness ==
    \E i \in Instances :
        /\ Done(i)
        /\ IsSetup(i)
        /\ creation[i] = ClientError(<<"AccessDenied">>, <<403>>)
        /\ RaisedSetupError(outcome[i])

----------------------------------------------------------------------------
(* The bucket's life cycle.                                                *)

\* what the operation of instance i has learnt about the bucket so far
View(i) ==
    IF IsSetup(i) /\ Done(i) /\ Returned(i) THEN "Exists"
    ELSE IF ReturnedTrue(checked[i]) THEN "Exists"
    ELSE IF ReturnedFalse(checked[i]) THEN "Absent"
    ELSE "Unknown"

ViewSteps ==
    {<<"Unknown", "Exists">>, <<"Unknown", "Absent">>, <<"Absent", "Exists">>}

\* C10 (Spec): no operation deletes the bucket.  Once it exists it exists in
\* every later state; it changes only from absent to existing and only in a
\* step whose create_bucket succeeded; and within one operation what is known
\* of the bucket moves only Unknown -> Exists, Unknown -> Absent or
\* Absent -> Exists.
C10_BucketNeverDeleted ==
    [][ /\ bucket = "Exists" => bucket' = "Exists"
        /\ bucket' # bucket =>
               \E i \in Instances :
                   /\ pc[i] = "creating"
                   /\ creation'[i].kind = "ok"
                   /\ requests'[i][Len(requests'[i])].op = "create_bucket"
        /\ \A req \in UNION {{requests'[i][k] : k \in 1..Len(requests'[i])} :
                                i \in Instances} :
               req.op # "delete_bucket"
        /\ \A i \in Instances :
               (ncalls'[i] = ncalls[i] /\ View(i)' # View(i))
                   => <<View(i), View(i)'>> \in ViewSteps
      ]_vars

\* C10 witness: the bucket was absent, a create made it exist, and a later
\* operation on the same instance has run to its end.
C10_Witness ==
    \E i \in Instances :
        /\ bucket0 = "Absent"
        /\ bucket = "Exists"
        /\ prev[i].how = "created"
        /\ Done(i)

----------------------------------------------------------------------------
(* Properties of the lifespan (checked under SpecLifespan).                *)

Serving(i) == phase[i] \in {"serving", "stopped"} \/ served[i]

\* C11: the application is in, or has been in, the serving state only when
\* setup_bucket has returned; when startup provisioning raised (or the setup
\* service could not be built) the application never serves a request.
C11_ServesOnlyAfterSetupReturned ==
    \A i \in Instances :
        /\ Serving(i) =>
               (IsSetup(i) /\ Done(i) /\ Returned(i))
        /\ (IsSetup(i) /\ Done(i) /\ ~Returned(i)) =>
               (~served[i] /\ phase[i] \in {"provisioning", "failed"})
        /\ phase[i] = "failed" => (~served[i] /\ session[i] = "closed")

\* the application served a request after startup had created the bucket
C11_Witness ==
    /\ served[1]
    /\ Returned(1)
    /\ creation[1].kind = "ok"
    /\ Len(requests[1]) = 2

----------------------------------------------------------------------------
(* Properties of list_files, upload_local_file and get_file_content        *)
(* (checked under SpecObjects).                                            *)

ObjectOps == {"list_files", "upload_local_file", "get_file_content"}

TaskDone(t) == tpc[t] = "done"
IsObjectOp(t) == call[t].op \in ObjectOps
TaskRaised(t) == result[t].kind = "raise"
TaskReturned(t) == result[t].kind = "return"
RaisedServiceError(t) ==
    result[t].kind = "raise" /\ result[t].exc = "S3ServiceError"
\* the task ended at an await whose answer it never saw
WasCancelled(t) ==
    /\ Len(sent[t]) > 0
    /\ \/ Len(got[t]) < Len(sent[t])
       \/ /\ Last(got[t]).kind = "ok"
          /\ Last(sent[t]).op = "get_object"
          /\ HasBody(Last(got[t]))
\* the last answer the task received is a failure of the provider call
GotFailure(t) ==
    Len(got[t]) > 0 /\ Last(got[t]).kind \in {"client_error", "exception"}

\* C12 (as stated): whatever list_files, upload_local_file or
\* get_file_content raises is an S3ServiceError.
C12_OnlyServiceErrorLeaves ==
    \A t \in Tasks :
        (TaskDone(t) /\ IsObjectOp(t) /\ TaskRaised(t)) =>
            RaisedServiceError(t)

\* C12 (amended): whatever list_files, upload_local_file or
\* get_file_content raises is an S3ServiceError, except the CancelledError
\* of a call the caller cancelled while it was awaiting the provider; a
\* provider failure, a malformed response, an empty key and a missing local
\* file always end in S3ServiceError.
C12_OnlyServiceErrorOrCancellationLeaves ==
    \A t \in Tasks :
        (TaskDone(t) /\ IsObjectOp(t)) =>
            /\ TaskRaised(t) =>
                   \/ RaisedServiceError(t)
                   \/ result[t].exc = "CancelledError" /\ WasCancelled(t)
            /\ GotFailure(t) => RaisedServiceError(t)
            /\ (Len(got[t]) > 0 /\ Last(sent[t]).op = "list_objects_v2"
                  /\ Last(got[t]).kind = "ok"
                  /\ Last(got[t]).Contents.null) => RaisedServiceError(t)
            /\ (call[t].op # "list_files" /\ ~Truthy(call[t].key)) =>
                   RaisedServiceError(t)
            /\ (call[t].op = "upload_local_file"
                  /\ ~(call[t].path.exists /\ call[t].path.is_file)) =>
                   RaisedServiceError(t)

\* upload_local_file ended in S3ServiceError after the provider refused the
\* put_object
C12_Witness ==
    /\ TaskDone(1)
    /\ call[1].op = "upload_local_file"
    /\ GotFailure(1)
    /\ Last(got[1]).kind = "client_error"
    /\ RaisedServiceError(1)

\* input that upload_local_file and get_file_content refuse
InvalidObjectInput(c) ==
    \/ c.op = "get_file_content" /\ c.key = <<>>
    \/ /\ c.op = "upload_local_file"
       /\ (c.key = <<>> \/ ~c.path.exists \/ ~c.path.is_file)

\* what the same call raises when the provider fails
ProviderFailureResult(c) ==
    IF c.op = "get_file_content" THEN FetchFailedError ELSE UploadFailedError

\* C13 (as stated): get_file_content with an empty key, and
\* upload_local_file with an empty key or a path that is missing or no
\* regular file, fail with a ValidationError, a kind distinct from the
\* generic S3ServiceError, surfaced as status 400.
C13_InvalidInputIsValidationError ==
    \A t \in Tasks :
        (TaskDone(t) /\ InvalidObjectInput(call[t])) =>
            /\ TaskRaised(t)
            /\ result[t].exc = "ValidationError"
            /\ result[t] # ProviderFailureResult(call[t])
            /\ (call[t].op = "get_file_content" =>
                   FileContentStatus(result[t]) = Some(400))

\* C13 (amended): these calls fail with S3ServiceError, the very error the
\* same operation raises when the provider fails; no exception type of
\* their own marks them.  GET /s3/file/content answers 500 to it, and 422,
\* without calling the service, when file_name is empty; it never answers 400.
C13_InvalidInputIsServiceError ==
    \A t \in Tasks :
        (TaskDone(t) /\ InvalidObjectInput(call[t])) =>
            /\ RaisedServiceError(t)
            /\ result[t] = ProviderFailureResult(call[t])
            /\ (call[t].op = "get_file_content" =>
                   /\ FileContentStatus(result[t]) = Some(500)
                   /\ FileContentRoute(call[t].key, result[t]) = Some(422))

\* upload_local_file was handed a directory and a key, and raised
C13_Witness ==
    /\ TaskDone(1)
    /\ call[1].op = "upload_local_file"
    /\ call[1].key # <<>>
    /\ call[1].path = DirectoryPath
    /\ RaisedServiceError(1)

\* input that an operation refuses: a blank bucket name, an empty key, a
\* local path that is no regular file, S3_BUCKET_NAME unset or empty
InvalidInput(c, env) ==
    \/ c.op = "bucket_exists" /\ (c.name = <<>> \/ Strip(c.name) = <<>>)
    \/ c.op = "setup_bucket" /\ (env = None \/ env = Some(<<>>))
    \/ InvalidObjectInput(c)

\* C14: an operation called with invalid input ends, by raising, without
\* having sent a request to the provider and without having opened a
\* transport handle.
C14_RejectedBeforeNetwork ==
    \A t \in Tasks :
        (tpc[t] # "idle" /\ InvalidInput(call[t], envBucket)) =>
            /\ TaskDone(t)
            /\ TaskRaised(t)
            /\ sent[t] = <<>>
            /\ got[t] = <<>>
            /\ opened[t] = {}
            /\ handle[t] = 0

\* setup_bucket was called with S3_BUCKET_NAME unset and raised
C14_Witness ==
    /\ TaskDone(1)
    /\ call[1].op = "setup_bucket"
    /\ envBucket = None
    /\ result[1] = MissingEnvError
    /\ nhandles = 0

\* C15 (as stated): every list_files, get_file_content and
\* upload_local_file operation sends exactly one request; after a provider
\* failure nothing is re-sent and the call raises S3ServiceError.
C15_ExactlyOneRoundTrip ==
    \A t \in Tasks :
        (TaskDone(t) /\ IsObjectOp(t)) =>
            /\ Len(sent[t]) = 1
            /\ GotFailure(t) => RaisedServiceError(t)

\* C15 (amended): each of these operations sends at most one request and
\* never re-sends it: exactly one when its input passed the checks, the
\* local file could be read and the client was opened, none otherwise.  When
\* the provider fails that request, the same call raises S3ServiceError with
\* the one request sent and the one failure received.
C15_AtMostOneRoundTrip ==
    \A t \in Tasks :
        IsObjectOp(t) =>
            /\ Len(sent[t]) <= 1
            /\ Len(got[t]) <= Len(sent[t])
            /\ TaskDone(t) =>
                   /\ Len(sent[t]) = 1 <=> opened[t] # {}
                   /\ InvalidObjectInput(call[t]) => Len(sent[t]) = 0
                   /\ (call[t].op = "upload_local_file"
                         /\ ~call[t].path.readable) => Len(sent[t]) = 0
                   /\ GotFailure(t) =>
                          /\ RaisedServiceError(t)
                          /\ Len(sent[t]) = 1
                          /\ Len(got[t]) = 1

\* list_files sent its one request, the provider failed it, and the call
\* raised
C15_Witness ==
    /\ TaskDone(1)
    /\ call[1].op = "list_files"
    /\ Len(sent[1]) = 1
    /\ GotFailure(1)
    /\ RaisedServiceError(1)

----------------------------------------------------------------------------
(* Properties of operations in flight together (checked under SpecTasks).  *)

InFlight(t) == tpc[t] \in {"inflight", "reading"}

\* C16: when an operation has ended - by returning, by raising after a
\* provider error, or by cancellation of its in-flight call - no handle it
\* opened is still open; the handles open at any time are exactly those
\* held by the operations in flight.
C16_HandlesReleased ==
    /\ \A t \in Tasks :
           /\ TaskDone(t) => (handle[t] = 0 /\ opened[t] \cap handles = {})
           /\ InFlight(t) =>
                  (handle[t] \in handles
                   /\ opened[t] \cap handles = {handle[t]})
    /\ handles = {handle[t] : t \in {u \in Tasks : InFlight(u)}}

\* one operation was cancelled in flight, another ended on a provider error,
\* both had opened a handle, and none is open
C16_Witness ==
    /\ TaskDone(1) /\ TaskDone(2)
    /\ result[1] = Cancelled
    /\ opened[1] # {}
    /\ GotFailure(2)
    /\ opened[2] # {}
    /\ handles = {}

\* C17: operations in flight together never hold or open the same handle,
\* and what an ended operation handed back is fixed by its own call, the
\* requests it sent and the answers it received (and whether it was
\* cancelled), whatever the other operations did: two operations that agree
\* on these agree on the result, a failed answer ends an object operation
\* in S3ServiceError, and a good answer to list_files or upload_local_file
\* makes it return.
C17_OperationsIndependent ==
    \A t \in Tasks :
        /\ \A u \in Tasks \ {t} :
               /\ opened[t] \cap opened[u] = {}
               /\ (handle[t] # 0 /\ handle[u] # 0) => handle[t] # handle[u]
               /\ (/\ TaskDone(t) /\ TaskDone(u)
                   /\ call[t] = call[u]
                   /\ sent[t] = sent[u]
                   /\ got[t] = got[u]
                   /\ (result[t] = Cancelled) = (result[u] = Cancelled))
                  => result[t] = result[u]
        /\ InFlight(t) => handle[t] \in handles
        /\ (TaskDone(t) /\ IsObjectOp(t) /\ result[t] # Cancelled) =>
               /\ GotFailure(t) => RaisedServiceError(t)
               /\ (call[t].op # "get_file_content" /\ Len(got[t]) > 0
                     /\ Last(got[t]).kind = "ok") => TaskReturned(t)

\* an operation started and failed while an earlier one was still in
\* flight on its own handle
C17_Witness ==
    /\ InFlight(1)
    /\ handle[1] = 1
    /\ handle[1] \in handles
    /\ TaskDone(2)
    /\ opened[2] = {2}
    /\ GotFailure(2)
    /\ RaisedServiceError(2)

----------------------------------------------------------------------------
(* Properties of list_files and get_file_content (checked under            *)
(* SpecObjects).                                                           *)

\* C18: the request list_files sends carries no Prefix when prefix is None
\* or the empty string, and carries Prefix equal to prefix otherwise.
C18_PrefixOnlyWhenNonEmpty ==
    \A t \in Tasks :
        (call[t].op = "list_files" /\ Len(sent[t]) > 0) =>
            LET req == sent[t][1]
                prefix == call[t].prefix
            IN  /\ req.op = "list_objects_v2"
                /\ IF prefix = None \/ prefix = Some(<<>>)
                   THEN req.Prefix = None
                   ELSE req.Prefix # None /\ Val(req.Prefix) = Val(prefix)

\* list_files was called with prefix "" and sent its request
C18_Witness ==
    /\ call[1].op = "list_files"
    /\ call[1].prefix = Some(<<>>)
    /\ Len(sent[1]) = 1
    /\ sent[1][1].Prefix = None
    /\ Len(got[1]) = 1

\* the key FileItem carries for an entry
ItemKey(e) == IF e.Key = None THEN NoneStr ELSE e.Key[1]

\* C19: when the provider answered list_files, a result set that is a list
\* comes back as one FileItem per entry, in the same order; a response
\* without a result set, or with an empty one, comes back as the empty list;
\* a null result set raises S3ServiceError; and a list is never handed back
\* shorter than the result set: an entry no FileItem can be built from makes
\* the whole call raise S3ServiceError.
C19_OneItemPerEntryInOrder ==
    \A t \in Tasks :
        (/\ TaskDone(t)
         /\ call[t].op = "list_files"
         /\ Len(got[t]) = 1
         /\ got[t][1].kind = "ok") =>
            LET c == got[t][1].Contents
                es == c.value
                items == result[t].value
            IN  /\ ~c.present => (TaskReturned(t) /\ items = <<>>)
                /\ (c.present /\ c.null) => RaisedServiceError(t)
                /\ (c.present /\ ~c.null) =>
                       /\ TaskReturned(t) <=>
                              \A k \in 1..Len(es) : es[k].wellFormed
                       /\ TaskReturned(t) =>
                              /\ Len(items) = Len(es)
                              /\ \A k \in 1..Len(es) :
                                     /\ items[k].key = ItemKey(es[k])
                                     /\ items[k].size = es[k].Size
                       /\ ~TaskReturned(t) => RaisedServiceError(t)

\* list_files handed back two items for a result set of two different
\* entries, in the provider's order
C19_Witness ==
    /\ TaskDone(1)
    /\ call[1].op = "list_files"
    /\ TaskReturned(1)
    /\ Len(got[1]) = 1
    /\ got[1][1].kind = "ok"
    /\ Len(got[1][1].Contents.value) = 2
    /\ got[1][1].Contents.value[1].Key = Some(<<"b", "b">>)
    /\ got[1][1].Contents.value[2].Key = None
    /\ result[1].value[1].key = <<"b", "b">>
    /\ result[1].value[2].key = NoneStr

----------------------------------------------------------------------------
(* Properties of upload_local_file (checked under SpecObjects).            *)

\* the MIME type of a file name, by its extension; None when unrecognized
InferredType(path) ==
    IF path.suffix = ".txt" THEN Some("text/plain") ELSE None

\* C21: the put_object request of upload_local_file carries exactly the
\* content_type the caller supplied when one was supplied; otherwise the
\* type inferred from the file extension; and no ContentType when the
\* extension is unrecognized.
C21_ContentTypeByOneRule ==
    \A t \in Tasks :
        (call[t].op = "upload_local_file" /\ Len(sent[t]) > 0) =>
            LET req == sent[t][1]
                override == call[t].content_type
            IN  /\ req.op = "put_object"
                /\ req.ContentType =
                       IF override # None THEN override
                       ELSE InferredType(call[t].path)

----------------------------------------------------------------------------
(* Properties of the requests of setup_bucket (checked under Spec).        *)

HeadRequests(i) ==
    {k \in 1..Len(requests[i]) : requests[i][k].op = "head_bucket"}

\* C29: the requests one setup_bucket call sends are a prefix of
\* <<head_bucket, create_bucket>>: at most two, the probe first and only
\* once, then at most one create_bucket; a call that got as far as the
\* provider has sent exactly one probe, and a failed request is not sent
\* again.
C29_ProbeThenAtMostOneCreate ==
    \A i \in Instances :
        IsSetup(i) =>
            /\ Len(requests[i]) <= 2
            /\ Len(requests[i]) >= 1 => requests[i][1].op = "head_bucket"
            /\ Len(requests[i]) = 2 => requests[i][2].op = "create_bucket"
            /\ Cardinality(HeadRequests(i)) <= 1
            /\ Cardinality(CreateRequests(i)) <= 1
            /\ (Probed(i) /\ probe[i].kind # "no_client") =>
                   Cardinality(HeadRequests(i)) = 1
            /\ (Done(i) /\ checked[i].kind = "raise") =>
                   Len(requests[i]) <= 1
            /\ (Done(i) /\ creation[i].kind \in {"client_error", "exception"})
                   => Len(requests[i]) = 2

\* setup_bucket probed, was told the bucket is absent, sent one
\* create_bucket that the provider failed, and raised
C29_Witness ==
    /\ IsSetup(1)
    /\ Done(1)
    /\ NotFoundResponse(probe[1])
    /\ creation[1].kind = "exception"
    /\ RaisedSetupError(outcome[1])
    /\ Len(requests[1]) = 2

----------------------------------------------------------------------------
(* Properties of the HTTP session (checked under SpecLifespan).            *)

LifespanEnded(i) == phase[i] \in {"stopped", "failed"}

\* C30: once the lifespan has ended - after a shutdown, after setup_bucket
\* or the construction of the setup service raised, or after startup was
\* cancelled - the session it opened is closed; while the application is
\* provisioning or serving the session is open.
C30_SessionClosedOnEveryExit ==
    \A i \in Instances :
        /\ LifespanEnded(i) => session[i] = "closed"
        /\ phase[i] \in {"provisioning", "serving"} => session[i] = "open"
        /\ phase[i] = "down" => session[i] = "none"

\* startup ended because setup_bucket raised after a failed create_bucket,
\* and the session is closed
C30_Witness ==
    /\ phase[1] = "failed"
    /\ IsSetup(1)
    /\ RaisedSetupError(outcome[1])
    /\ Len(requests[1]) = 2
    /\ session[1] = "closed"

----------------------------------------------------------------------------
(* Properties of the region of a created bucket (checked under SpecRegion). *)

\* the region is absent (unset or empty) or the provider's default
DefaultRegion(r) == ~TruthyStr(r) \/ r = Some("us-east-1")

\* C28: a create_bucket request that setup_bucket sent carries no
\* LocationConstraint if and only if the region the storage client is
\* configured with (S3Config.region_name) is absent - unset or empty - or is
\* us-east-1; otherwise its LocationConstraint is that same region.
C28_RegionlessIffDefaultRegion ==
    \A i \in Instances : \A k \in CreateRequests(i) :
        LET loc == requests[i][k].Location
        IN  /\ (loc = None) <=> DefaultRegion(region_name)
            /\ (loc # None) => loc = region_name

\* AWS_REGION is empty and AWS_DEFAULT_REGION names eu-west-1: the bucket
\* was created with that LocationConstraint
C28_Witness ==
    /\ environ.AWS_REGION = Some("")
    /\ environ.AWS_DEFAULT_REGION = Some("eu-west-1")
    /\ pc[1] = "done"
    /\ CreateRequests(1) # {}
    /\ requests[1][2].Location = Some("eu-west-1")
    /\ outcome[1].kind = "return"

----------------------------------------------------------------------------
(* Properties of the HTTP routes (checked under SpecRoutes).               *)

IsRoute(t, name) == entry[t].kind = "route" /\ entry[t].name = name

\* the route called the service, the operation ended, and the route answered
AnsweredAfterService(t) == tpc[t] = "done" /\ response[t].kind = "http"

\* get_object was answered NoSuchKey: the bucket holds no such object
ObjectAbsent(t) == Len(got[t]) > 0 /\ Last(got[t]) = NoSuchKey

\* C22: when GET /s3/file/content failed to fetch the object, it answers 404
\* if the provider reported the object absent and 500 for any other failure.
C22_AbsentIs404OtherFailureIs500 ==
    \A t \in Tasks :
        (/\ IsRoute(t, "get_file_content")
         /\ AnsweredAfterService(t)
         /\ result[t].kind = "raise") =>
            response[t].status = IF ObjectAbsent(t) THEN NOT_FOUND ELSE 500

ServiceErrorAnswered(t) ==
    /\ entry[t].kind = "route"
    /\ AnsweredAfterService(t)
    /\ RaisedServiceError(t)

\* C23 as stated: on every route, an S3ServiceError raised by the service is
\* answered 502 with the body {"detail": <service message>}.
C23_ServiceErrorIs502OnEveryRoute ==
    \A t \in Tasks :
        ServiceErrorAnswered(t) =>
            response[t] = Http(502, [detail |-> result[t].msg])

\* C23: on GET /s3/bucket/exists, GET /s3/bucket/files/count and
\* GET /s3/files, an S3ServiceError raised by the service is answered 502 with
\* the body {"detail": <service message>}; GET /s3/file/content answers it
\* 500 with the body {"detail": "Failed to fetch file content"}.
C23_ServiceErrorIs502ExceptFileContent ==
    \A t \in Tasks :
        ServiceErrorAnswered(t) =>
            response[t] = IF entry[t].name = "get_file_content"
                          THEN Http(500, [detail |->
                                        "Failed to fetch file content"])
                          ELSE Http(502, [detail |-> result[t].msg])

\* bucket_exists raised "Access denied" and GET /s3/bucket/exists answered 502
C23_Witness ==
    /\ IsRoute(1, "bucket_exists")
    /\ result[1] = AccessDeniedError
    /\ response[1] =
           Http(502, [detail |-> "Access denied checking S3 bucket"])

\* S3_BUCKET_NAME is unset, empty or blank
NotConfigured(env) == ~TruthyOpt(env) \/ ~Truthy(Strip(Val(env)))

\* C24: GET /s3/bucket/exists with S3_BUCKET_NAME unset or blank answers 500
\* and never calls the service or sends a request to the provider; with the
\* name configured it probes the stripped name, and when bucket_exists
\* returns it answers 200 with {bucket_name: the stripped name, exists: what
\* bucket_exists returned}.
C24_Http500WithoutProbeWhenNotConfigured ==
    \A t \in Tasks :
        IsRoute(t, "bucket_exists") =>
            IF NotConfigured(envBucket)
            THEN /\ response[t] = InternalServerError
                 /\ tpc[t] = "idle"
                 /\ sent[t] = <<>>
            ELSE /\ tpc[t] # "idle" =>
                     call[t] = CallExists(Strip(Val(envBucket)))
                 /\ (AnsweredAfterService(t) /\ result[t].kind = "return") =>
                     response[t] =
                         Http(200, [bucket_name |-> Strip(Val(envBucket)),
                                    exists |-> result[t].flag])

\* S3_BUCKET_NAME is " b": the route probed "b" and answered that it exists
C24_Witness ==
    /\ envBucket = Some(<<" ", "b">>)
    /\ IsRoute(1, "bucket_exists")
    /\ sent[1] = <<HeadBucketRequest(<<"b">>)>>
    /\ response[1] = Http(200, [bucket_name |-> <<"b">>, exists |-> TRUE])

\* the objects of the bucket whose key starts with `prefix`, all when no
\* prefix is given
MatchingObjects(prefix) ==
    {k \in 1..stored :
        IsNone(prefix) \/ MatchesPrefix(StoredKey(k), Val(prefix))}

\* C26: a 200 answer of GET /s3/bucket/files/count carries the number of
\* objects in the bucket whose key matches the prefix, whatever the size of
\* the bucket.
C26_CountIsNumberOfMatchingObjects ==
    \A t \in Tasks :
        (/\ IsRoute(t, "bucket_files_count")
         /\ AnsweredAfterService(t)
         /\ response[t].status = 200) =>
            response[t].body.count =
                Cardinality(MatchingObjects(entry[t].prefix))

----------------------------------------------------------------------------
(* Properties of the tool adapters (checked under SpecTools).              *)

\* C27: a tool that has answered called the service operation behind its
\* route with the arguments it was given, and hands back what the operation
\* handed back: its value, or its exception.
C27_ToolYieldsWhatTheServiceYields ==
    \A t \in Tasks :
        (/\ entry[t].kind = "tool"
         /\ response[t] # NoAnswer
         /\ ~NotConfigured(envBucket)) =>
            /\ tpc[t] = "done"
            /\ call[t] = ServiceCall(entry[t], envBucket)
            /\ response[t] = ToolAfter(entry[t], envBucket, result[t])

----------------------------------------------------------------------------
(* Properties of POST /document/chunks (checked under SpecDocument).       *)

ChunksAnswered(t) == IsRoute(t, "chunk_text") /\ response[t].kind = "http"

OutOfRange(e) == e.chunk_size < 1 \/ e.chunk_overlap < 0

IsBlankText(e) == ~Truthy(Strip(e.text))

\* C25 as stated: the answer is 400 whenever chunk_overlap >= chunk_size or
\* a parameter is out of range, whatever the text; otherwise it is 200 with
\* count the number of chunks.
C25_BadParametersAre400 ==
    \A t \in Tasks :
        ChunksAnswered(t) =>
            LET e == entry[t]  r == response[t]
            IN  IF OutOfRange(e) \/ e.chunk_overlap >= e.chunk_size
                THEN r.status = 400
                ELSE r.status = 200 /\ r.body.count = Len(r.body.chunks)

\* C25: the answer is 422 when chunk_size < 1 or chunk_overlap < 0; with both
\* in range it is 400 when chunk_overlap >= chunk_size and the text is not
\* blank; otherwise - for every blank text too, which yields no chunk - it is
\* 200 with count the number of chunks returned.
C25_BadParametersAre422Or400UnlessBlank ==
    \A t \in Tasks :
        ChunksAnswered(t) =>
            LET e == entry[t]  r == response[t]
            IN  IF OutOfRange(e) THEN r.status = 422
                ELSE IF e.chunk_overlap >= e.chunk_size /\ ~IsBlankText(e)
                THEN r.status = 400
                ELSE /\ r.status = 200
                     /\ r.body.count = Len(r.body.chunks)
                     /\ IsBlankText(e) => r.body.count = 0

\* a blank text with chunk_overlap = chunk_size was answered 200 and no chunk
C25_Witness ==
    /\ ChunksAnswered(1)
    /\ entry[1].text = <<" ">>
    /\ entry[1].chunk_size = 1
    /\ entry[1].chunk_overlap = 1
    /\ response[1].status = 200
    /\ response[1].body.chunks = <<>>

====
